---- MODULE Spec2Model ----
(***************************************************************************)
(* Model of the coupled level-set / Navier-Stokes time stepping of         *)
(* Bubble_move.py (class BubbleMove) and of its driver main.py.            *)
(*                                                                         *)
(* Finite-element fields are abstracted to value tags [kind, step, iter]   *)
(* that say which solve of which timestep produced the values.  What is    *)
(* kept exactly is the identity of the Python objects: a weak form built   *)
(* in set_weak_forms keeps a reference to the objects that self.u_curr and *)
(* self.n were bound to at that moment, an assign() or a solve into a      *)
(* vector changes an object in place, and a plain attribute assignment     *)
(* rebinds the attribute to another object.                                *)
(*                                                                         *)
(* Time and the reinitialization residual live on integer grids: DOLFIN_EPS*)
(* and the tolerance 1e-3 are a few grid units, the start value 1e10 of    *)
(* E_old is the grid value EInit.                                          *)
(***************************************************************************)
EXTENDS Integers, Sequences, FiniteSets, TLC

\* ------------------------------------------------------------------ bounds
MaxDt == 3          \* Time_step ranges over 1..MaxDt grid units
MaxTEnd == 5        \* End_time ranges over 1..MaxTEnd grid units
MaxResidual == 23   \* the residual E ranges over 0..MaxResidual
MaxCoord == 5       \* x_center, y_center range over 0..MaxCoord
MaxRadius == 2      \* Radius ranges over 0..MaxRadius
AtDen == 2          \* Atwood_number is At/AtDen, At in -(AtDen+1)..(AtDen+1)

\* ------------------------------------------------------- program constants
EInit == 22         \* E_old = 1e10 before the first iteration (grid value)
Tol == 2            \* the stop tolerance 1e-3 (grid value)
MaxReinitIter == 10 \* for n in range(10)
DOLFIN_EPS == 2     \* DOLFIN_EPS (grid value)

Abs(x) == IF x < 0 THEN -x ELSE x

\* ------------------------------------------------------------ field values
Val(k, s, i) == [kind |-> k, step |-> s, iter |-> i]
NoVal == Val("none", 0, 0)   \* the attribute does not exist yet
Zero == Val("zero", 0, 0)    \* a freshly created Function
Normal(x) == [of |-> x]      \* grad_phi/|grad_phi| projected from the values x
NoNormal == Normal(NoVal)

\* ------------------------------------------------------ configuration files
NoArg == "<none>"
DefaultFile == "test.cfg"
UserFile == "user.cfg"
FileNames == {DefaultFile, UserFile}
NSNames == {"Standard", "ICT"}
StabNames == {"IP", "SUPG"}
ReinitNames == {"Conservative", "Non_Conservative"}

BaseParam ==
    [Re |-> 1, At |-> 1, rho1 |-> 1, dt |-> 1, t_end |-> 1,
     NS |-> "Standard", stab |-> "SUPG", reinit |-> "Non_Conservative",
     base |-> 4, height |-> 5, xc |-> 2, yc |-> 2, r |-> 1]

\* the configurations explored: each family varies some keys of BaseParam
TimeParams ==
    {[BaseParam EXCEPT !.dt = d, !.t_end = e] : d \in 1..MaxDt, e \in 1..MaxTEnd}
MethodParams ==
    {[BaseParam EXCEPT !.t_end = 2, !.NS = m, !.stab = s, !.reinit = rm] :
        m \in NSNames, s \in StabNames, rm \in ReinitNames}
    \cup {[BaseParam EXCEPT !.NS = "Other"], [BaseParam EXCEPT !.stab = "Other"],
          [BaseParam EXCEPT !.reinit = "Other"]}
PhysicalParams ==
    {[BaseParam EXCEPT !.At = a, !.Re = re, !.rho1 = rh] :
        a \in -(AtDen + 1)..(AtDen + 1), re \in -1..1, rh \in -1..1}
GeometryParams ==
    {[BaseParam EXCEPT !.xc = x, !.yc = y, !.r = rad] :
        x \in 0..MaxCoord, y \in 0..MaxCoord, rad \in 0..MaxRadius}
ParamSet == TimeParams \cup MethodParams \cup PhysicalParams \cup GeometryParams
UserParam == [BaseParam EXCEPT !.NS = "ICT", !.t_end = 2]
\* self.Param before the constructor has read a file
NoParam ==
    [Re |-> 0, At |-> 0, rho1 |-> 0, dt |-> 0, t_end |-> 0,
     NS |-> "none", stab |-> "none", reinit |-> "none",
     base |-> 0, height |-> 0, xc |-> 0, yc |-> 0, r |-> 0]

VARIABLES
    argv, files,                       \* command line, configuration files
    pc,                                \* position of the program
    param_test, sim_param_name, Param, \* main.py's file, BubbleMove's file
    rho2, mu1, mu2,                    \* derived physical properties
    w_old, w_curr, u_copy, p_copy,     \* Functions (values of their vectors)
    u_curr,                            \* the object self.u_curr is bound to
    phi_old, phi_curr, phi0, phi_intermediate,
    n,                                 \* the expression self.n is bound to
    form_u_curr, form_n,               \* the objects the weak forms refer to
    t, E_old, E, n_iter,               \* locals of run and Levelset_reinit
    tmp,                               \* the indicator field of the diagnostic
    nsteps, stages, t_label, t_prev,   \* history: timesteps and their stages
    ls_u_used, ns_n_used, stop_met,    \* history: what the solves read
    re_n_used                          \* history: the normal the a3/L3 solve read

envVars == <<argv, files>>
ctorVars == <<param_test, sim_param_name, Param, rho2, mu1, mu2>>
flowVars == <<w_curr, u_copy, p_copy, u_curr>>
oldVars == <<w_old, phi_old>>
phiVars == <<phi_curr, phi0, phi_intermediate>>
formVars == <<form_u_curr, form_n>>
reinitVars == <<E_old, E, n_iter>>
timeVars == <<t, nsteps, t_label, t_prev>>
histVars == <<ls_u_used, ns_n_used, stop_met, re_n_used>>
vars == <<envVars, pc, ctorVars, flowVars, oldVars, phiVars, n, formVars,
          reinitVars, tmp, timeVars, stages, histVars>>

\* rho2 = rho1*(1 + At)/(1 - At) as the fraction num/den (both scaled by AtDen)
Rho2(rho_1, At) == [num |-> rho_1 * (AtDen + At), den |-> AtDen - At]
\* mu1 = rho1*sqrt(9.81*At*base)*base/Re, kept symbolic: coef*sqrt(9.81*rad/AtDen)/den
Mu1(rho_1, At, base, Re) == [coef |-> rho_1 * base, rad |-> At * base, den |-> Re]
\* mu2 = rho2*mu1/rho1, kept symbolic
Mu2(rho_2, mu_1, rho_1) == [rho2 |-> rho_2, mu1 |-> mu_1, den |-> rho_1]
Unset == [num |-> 0, den |-> 0]

Init ==
    /\ \E c \in ({NoArg} \X ParamSet) \cup ({DefaultFile, UserFile} \X {BaseParam}) :
          /\ argv = c[1]
          /\ files = [f \in FileNames |-> IF f = DefaultFile THEN c[2] ELSE UserParam]
    /\ pc = "main"
    /\ param_test = NoArg /\ sim_param_name = NoArg /\ Param = NoParam
    /\ rho2 = Unset /\ mu1 = Unset /\ mu2 = Unset
    /\ w_old = [u |-> NoVal, p |-> NoVal] /\ w_curr = [u |-> NoVal, p |-> NoVal]
    /\ u_copy = NoVal /\ p_copy = NoVal /\ u_curr = "none"
    /\ phi_old = NoVal /\ phi_curr = NoVal /\ phi0 = NoVal
    /\ phi_intermediate = NoVal
    /\ n = NoNormal /\ form_u_curr = "none" /\ form_n = NoNormal
    /\ t = 0 /\ E_old = 0 /\ E = 0 /\ n_iter = 0
    /\ tmp = NoVal
    /\ nsteps = 0 /\ stages = <<>> /\ t_label = 0 /\ t_prev = 0
    /\ ls_u_used = NoVal /\ ns_n_used = NoNormal /\ stop_met = FALSE
    /\ re_n_used = NoNormal

\* ------------------------------------------------------------------ main.py
\* main(): the file named on the command line is read and three of its keys
\* are printed; the simulation is then constructed from "test.cfg".
Main ==
    /\ pc = "main"
    /\ param_test' = IF argv # NoArg THEN argv ELSE DefaultFile
    /\ sim_param_name' = DefaultFile
    /\ pc' = "init"
    /\ UNCHANGED <<envVars, Param, rho2, mu1, mu2, flowVars, oldVars, phiVars, n,
                   formVars, reinitVars, tmp, timeVars, stages, histVars>>

\* ------------------------------------------------------ BubbleMove.__init__
MethodsAvailable(p) ==
    /\ p.NS \in NSNames
    /\ p.stab \in StabNames
    /\ p.reinit \in ReinitNames

Constructor ==
    /\ pc = "init"
    /\ LET p == files[sim_param_name] IN
        /\ Param' = p
        /\ IF ~MethodsAvailable(p)
           THEN /\ pc' = "init_AssertionError"
                /\ UNCHANGED <<rho2, mu1, mu2>>
           ELSE IF AtDen - p.At = 0
           THEN /\ pc' = "init_ZeroDivisionError"
                /\ UNCHANGED <<rho2, mu1, mu2>>
           ELSE /\ rho2' = Rho2(p.rho1, p.At)
                /\ mu1' = Mu1(p.rho1, p.At, p.base, p.Re)
                /\ mu2' = Mu2(rho2', mu1', p.rho1)
                /\ pc' = "build_mesh"
    /\ UNCHANGED <<envVars, param_test, sim_param_name, flowVars, oldVars, phiVars,
                   n, formVars, reinitVars, tmp, timeVars, stages, histVars>>

\* -------------------------------------------------------------- run: setup
BuildMesh ==
    /\ pc = "build_mesh"
    /\ w_old' = [u |-> Zero, p |-> Zero]
    /\ phi_old' = Zero
    /\ w_curr' = [u |-> Zero, p |-> Zero]
    /\ u_copy' = Zero /\ p_copy' = Zero   \* w_curr.split(True): deep copies
    /\ u_curr' = "copy"
    /\ phi_curr' = Zero /\ phi0' = Zero /\ phi_intermediate' = Zero
    /\ pc' = "set_initial_condition"
    /\ UNCHANGED <<envVars, ctorVars, n, formVars, reinitVars, tmp, timeVars,
                   stages, histVars>>

\* the assert of set_initial_condition
InsideDomain_Closed(p) ==
    /\ p.xc - p.r >= 0 /\ p.xc + p.r <= p.base
    /\ p.yc - p.r >= 0 /\ p.yc + p.r <= p.height

InsideDomain(p) ==
    /\ p.xc - p.r > 0 /\ p.xc + p.r < p.base
    /\ p.yc - p.r > 0 /\ p.yc + p.r < p.height

SetInitialCondition ==
    /\ pc = "set_initial_condition"
    /\ IF ~InsideDomain(Param)
       THEN /\ pc' = "ic_AssertionError"
            /\ UNCHANGED <<oldVars, n, tmp>>
       ELSE /\ phi_old' = Val("ic", 0, 0)
            /\ w_old' = [u |-> Zero, p |-> Zero]
            /\ n' = Normal(phi_old')
            /\ tmp' = Zero
            /\ pc' = "set_weak_forms"
    /\ UNCHANGED <<envVars, ctorVars, flowVars, phiVars, formVars, reinitVars,
                   timeVars, stages, histVars>>

\* set_weak_forms: the forms a1/L1 keep the expression self.n is bound to now,
\* the forms a2/L2 (and the SUPG term) keep the object self.u_curr is bound to
\* now.  u_old, p_old are views of w_old and rho_old, mu_old are expressions
\* of phi_old; both follow the in-place assigns of run.
SetWeakForms ==
    /\ pc = "set_weak_forms"
    /\ form_n' = n
    /\ form_u_curr' = u_curr
    /\ pc' = "assembleBC"
    /\ UNCHANGED <<envVars, ctorVars, flowVars, oldVars, phiVars, n, reinitVars,
                   tmp, timeVars, stages, histVars>>

\* assembleBC, then t = self.dt
AssembleBC ==
    /\ pc = "assembleBC"
    /\ t' = Param.dt
    /\ pc' = "loop"
    /\ UNCHANGED <<envVars, ctorVars, flowVars, oldVars, phiVars, n, formVars,
                   reinitVars, tmp, nsteps, t_label, t_prev, stages, histVars>>

\* ------------------------------------------------- run: time-stepping loop
\* the statements of the loop body, in the order run executes them
RunStages_CommitBeforePlot == <<"flow", "transport", "reinit", "commit", "plot">>

RunStages == <<"flow", "transport", "reinit", "plot", "commit">>
StageIndex(s) == CHOOSE i \in 1..Len(RunStages) : RunStages[i] = s
After(s) == IF StageIndex(s) < Len(RunStages) THEN RunStages[StageIndex(s) + 1]
            ELSE "loop"
step == nsteps + 1   \* the timestep being executed

\* while t <= self.t_end
LoopEnter ==
    /\ pc = "loop"
    /\ t <= Param.t_end
    /\ pc' = RunStages[1]
    /\ t_label' = t /\ t_prev' = t_label
    /\ stages' = <<>>
    /\ UNCHANGED <<envVars, ctorVars, flowVars, oldVars, phiVars, n, formVars,
                   reinitVars, tmp, t, nsteps, histVars>>

LoopExit ==
    /\ pc = "loop"
    /\ ~(t <= Param.t_end)
    /\ pc' = "Terminated"
    /\ UNCHANGED <<envVars, ctorVars, flowVars, oldVars, phiVars, n, formVars,
                   reinitVars, tmp, timeVars, stages, histVars>>

\* solve_Standard_NS_system: solves into w_curr, then rebinds self.u_curr and
\* self.p_curr to views of w_curr
SolveStandardNS ==
    /\ pc = "flow"
    /\ Param.NS = "Standard"
    /\ ns_n_used' = form_n
    /\ w_curr' = [u |-> Val("ns", step, 0), p |-> Val("ns", step, 0)]
    /\ u_curr' = "view"
    /\ stages' = Append(stages, "flow")
    /\ pc' = After("flow")
    /\ UNCHANGED <<envVars, ctorVars, u_copy, p_copy, oldVars, phiVars, n, formVars,
                   reinitVars, tmp, timeVars, ls_u_used, stop_met,
                   re_n_used>>

\* solve_ICT_NS_systems: solves into the vectors of self.u_curr and
\* self.p_curr, then assigns both into w_curr
SolveICTNS ==
    /\ pc = "flow"
    /\ Param.NS = "ICT"
    /\ ns_n_used' = form_n
    /\ IF u_curr = "copy"
       THEN /\ u_copy' = Val("ns", step, 0) /\ p_copy' = Val("ns", step, 0)
            /\ w_curr' = [u |-> u_copy', p |-> p_copy']
       ELSE /\ w_curr' = [u |-> Val("ns", step, 0), p |-> Val("ns", step, 0)]
            /\ UNCHANGED <<u_copy, p_copy>>
    /\ stages' = Append(stages, "flow")
    /\ pc' = After("flow")
    /\ UNCHANGED <<envVars, ctorVars, u_curr, oldVars, phiVars, n, formVars,
                   reinitVars, tmp, timeVars, ls_u_used, stop_met,
                   re_n_used>>

\* the values of the velocity object the forms a2/L2 refer to
FormVelocity == IF form_u_curr = "copy" THEN u_copy ELSE w_curr.u

\* solve_Levelset_system
SolveLevelset ==
    /\ pc = "transport"
    /\ ls_u_used' = FormVelocity
    /\ phi_curr' = Val("ls", step, 0)
    /\ stages' = Append(stages, "transport")
    /\ pc' = After("transport")
    /\ UNCHANGED <<envVars, ctorVars, flowVars, oldVars, phi0, phi_intermediate, n,
                   formVars, reinitVars, tmp, timeVars, ns_n_used, stop_met,
                   re_n_used>>

\* Levelset_reinit, up to E_old = 1e10
ReinitBegin ==
    /\ pc = "reinit"
    /\ phi0' = phi_curr
    /\ n' = IF Param.reinit = "Conservative" THEN Normal(phi_curr) ELSE n
    /\ E_old' = EInit /\ E' = 0 /\ n_iter' = 0
    /\ stop_met' = FALSE
    /\ pc' = "reinit_iter"
    /\ UNCHANGED <<envVars, ctorVars, flowVars, oldVars, phi_curr, phi_intermediate,
                   formVars, tmp, timeVars, stages, ls_u_used, ns_n_used,
                   re_n_used>>

\* the tests on the residual in the loop of Levelset_reinit
ReinitOutcome_NoDivergenceTest(eold, e) ==
    IF eold - e < Tol THEN "break" ELSE "continue"

ReinitOutcome(eold, e) ==
    IF eold < e THEN "raise"
    ELSE IF eold - e < Tol THEN "break"
    ELSE "continue"

\* one iteration of the loop of Levelset_reinit with residual e; a raise is
\* caught by run, which prints and exits
ReinitIter(e) ==
    /\ pc = "reinit_iter"
    /\ n_iter < MaxReinitIter
    /\ phi_intermediate' = Val("re", step, n_iter + 1)
    /\ E' = e
    /\ stop_met' = (E_old - e < Tol)
    \* the form of CLSM_weak_form holds the self.n of set_weak_forms
    /\ re_n_used' = IF Param.reinit = "Conservative" THEN form_n ELSE re_n_used
    /\ LET out == ReinitOutcome(E_old, e) IN
         IF out = "raise"
         THEN /\ pc' = "Aborted"
              /\ UNCHANGED <<E_old, n_iter, phi0>>
         ELSE IF out = "break"
         THEN /\ pc' = "reinit_end"
              /\ UNCHANGED <<E_old, n_iter, phi0>>
         ELSE /\ E_old' = e
              /\ phi0' = phi_intermediate'
              /\ n_iter' = n_iter + 1
              /\ pc' = IF n_iter + 1 < MaxReinitIter THEN "reinit_iter"
                       ELSE "reinit_end"
    /\ UNCHANGED <<envVars, ctorVars, flowVars, oldVars, phi_curr, n, formVars, tmp,
                   timeVars, stages, ls_u_used, ns_n_used>>

\* Levelset_reinit after the loop
ReinitEnd ==
    /\ pc = "reinit_end"
    /\ phi_curr' = phi_intermediate
    /\ n' = Normal(phi_curr')
    /\ E_old' = 0 /\ E' = 0 /\ n_iter' = 0
    /\ stages' = Append(stages, "reinit")
    /\ pc' = After("reinit")
    /\ UNCHANGED <<envVars, ctorVars, flowVars, oldVars, phi0, phi_intermediate,
                   formVars, tmp, timeVars, histVars>>

\* plot_and_volume: the indicator of phi_curr < 0 and its integral
PlotAndVolume ==
    /\ pc = "plot"
    /\ tmp' = phi_curr
    /\ stages' = Append(stages, "plot")
    /\ pc' = After("plot")
    /\ UNCHANGED <<envVars, ctorVars, flowVars, oldVars, phiVars, n, formVars,
                   reinitVars, timeVars, histVars>>

\* the last statement of the loop body
NextTime_NoClamp(tt, dt, t_end) == tt + dt

NextTime(tt, dt, t_end) ==
    IF tt + dt <= t_end \/ Abs(tt - t_end) < DOLFIN_EPS THEN tt + dt ELSE t_end

\* density and viscosity are expressions of the Function phi_old
rho_old == [rho1 |-> Param.rho1, rho2 |-> rho2, of |-> phi_old]
mu_old == [mu1 |-> mu1, mu2 |-> mu2, of |-> phi_old]

\* the end of the loop body: previous-step solution, then the next t
Commit_NoPhiAssign ==
    /\ pc = "commit"
    /\ w_old' = w_curr
    /\ t' = NextTime(t, Param.dt, Param.t_end)
    /\ nsteps' = nsteps + 1
    /\ stages' = Append(stages, "update")
    /\ pc' = After("commit")
    /\ UNCHANGED <<envVars, ctorVars, flowVars, phi_old, phiVars, n, formVars,
                   reinitVars, tmp, t_label, t_prev, histVars>>

Commit ==
    /\ pc = "commit"
    /\ w_old' = w_curr
    /\ phi_old' = phi_curr
    /\ t' = NextTime(t, Param.dt, Param.t_end)
    /\ nsteps' = nsteps + 1
    /\ stages' = Append(stages, "update")
    /\ pc' = After("commit")
    /\ UNCHANGED <<envVars, ctorVars, flowVars, phiVars, n, formVars, reinitVars,
                   tmp, t_label, t_prev, histVars>>

Next ==
    \/ Main
    \/ Constructor
    \/ BuildMesh
    \/ SetInitialCondition
    \/ SetWeakForms
    \/ AssembleBC
    \/ LoopEnter
    \/ LoopExit
    \/ SolveStandardNS
    \/ SolveICTNS
    \/ SolveLevelset
    \/ ReinitBegin
    \/ \E e \in 0..MaxResidual : ReinitIter(e)
    \/ ReinitEnd
    \/ PlotAndVolume
    \/ Commit

Spec == Init /\ [][Next]_vars

\* ================================================================== claims
StepPcs == {"flow", "transport", "reinit", "reinit_iter", "reinit_end", "plot",
            "commit"}
InStep == pc \in StepPcs
StepDone == pc = "loop" /\ nsteps >= 1

\* C1 (as amended): a timestep that completes executes each stage exactly once
\* and in the order flow solve, level-set transport, reinitialization, volume
\* diagnostic, and only then the update of the previous-step state with the
\* density and the viscosity; a timestep in progress has executed a prefix of
\* that order.
CodeOrder == <<"flow", "transport", "reinit", "plot", "update">>
C1_StageOrder ==
    /\ StepDone => stages = CodeOrder
    /\ InStep => /\ Len(stages) < Len(CodeOrder)
                 /\ stages = SubSeq(CodeOrder, 1, Len(stages))
    /\ pc = "commit" => Len(stages) = Len(CodeOrder) - 1

C1_Witness == StepDone /\ nsteps >= 2 /\ stages = CodeOrder

\* C1 (as claimed): a timestep that completes has executed flow solve,
\* transport, reinitialization, the density/viscosity update and only then the
\* volume diagnostic.
C1_UpdateBeforeDiagnostic ==
    StepDone => stages = <<"flow", "transport", "reinit", "update", "plot">>

\* C2: the velocity object read by the level-set transport solve holds the
\* velocity written by the flow solve of the same timestep.
C2_TransportReadsStepVelocity ==
    (InStep /\ Len(stages) >= 2) => ls_u_used = Val("ns", step, 0)

\* C3: from the second timestep on, the normal read by the flow solve is the
\* normal computed from the reinitialized phi_curr of the previous timestep
\* (which the commit made phi_old).
C3_FlowReadsReinitNormal ==
    (InStep /\ Len(stages) >= 1 /\ nsteps >= 1) =>
        /\ ns_n_used = Normal(phi_old)
        /\ ns_n_used.of.kind = "re" /\ ns_n_used.of.step = nsteps

\* C4: an iteration of the reinitialization whose residual exceeds the residual
\* of the previous iteration raises within the cap; the run is then Aborted with
\* phi_curr still the transport result, without diagnostic, without commit and
\* without a further step.
C4_DivergenceAborts ==
    /\ [][(pc = "reinit_iter" /\ n_iter >= 1 /\ E' > E) =>
            /\ pc' = "Aborted"
            /\ n_iter < MaxReinitIter
            /\ phi_curr' = phi_curr]_vars
    /\ [](pc = "Aborted" =>
            /\ phi_curr = Val("ls", step, 0)
            /\ stages = <<"flow", "transport">>
            /\ tmp.step # step
            /\ phi_old.step # step /\ w_old.u.step # step)
    /\ [][pc = "Aborted" => UNCHANGED vars]_vars

C4_Witness == pc = "Aborted" /\ n_iter >= 2 /\ E > E_old /\ E_old < EInit

\* C5: whenever the reinitialization has returned and phi_curr holds its
\* result, the stop criterion E_prev - E < 1e-3 held at its last iteration.
C5_ReturnsOnlyConverged ==
    phi_curr.kind = "re" => stop_met

\* C6: inside the loop only the commit at the end of the timestep changes
\* u_old, p_old (w_old), phi_old, rho_old and mu_old; the commit makes them the
\* timestep's flow solution and its reinitialized phi_curr.
C6_OldFieldsCommittedOnce ==
    /\ [][(pc \in StepPcs \cup {"loop"} /\ pc # "commit") =>
            UNCHANGED <<w_old, phi_old, rho_old, mu_old>>]_vars
    /\ [][pc = "commit" =>
            /\ w_old' = w_curr /\ phi_old' = phi_curr
            /\ rho_old'.of = phi_curr /\ mu_old'.of = phi_curr
            /\ pc' = "loop"]_vars
    /\ [](StepDone =>
            /\ w_old = [u |-> Val("ns", nsteps, 0), p |-> Val("ns", nsteps, 0)]
            /\ w_old.u = (IF u_curr = "copy" THEN u_copy ELSE w_curr.u)
            /\ phi_old = phi_curr
            /\ phi_old.kind = "re" /\ phi_old.step = nsteps)

C6_Witness ==
    StepDone /\ nsteps >= 2 /\ Param.NS = "ICT" /\ phi_old = phi_curr

\* C7 (as amended): the time labels of the executed timesteps are strictly
\* increasing and at most t_end; there are finitely many; no timestep is
\* executed when dt > t_end; otherwise the last executed timestep has
\* t_end - DOLFIN_EPS < t <= t_end, with t = t_end when it is a clamped step;
\* the loop then exits with t > t_end; t_end = 5*dt gives 5 timesteps.
Started == IF InStep THEN nsteps + 1 ELSE nsteps
C7_TimeLabels ==
    /\ Started >= 1 =>
          /\ t_prev < t_label /\ t_label <= Param.t_end
          /\ (Started - 1) * Param.dt < Param.t_end
          /\ (Started >= 2 /\ t_label # t_prev + Param.dt) => t_label = Param.t_end
    /\ pc = "Terminated" =>
          /\ t > Param.t_end
          /\ Param.dt > Param.t_end => nsteps = 0
          /\ Param.dt <= Param.t_end =>
                /\ nsteps >= 1
                /\ Param.t_end - DOLFIN_EPS < t_label
          /\ Param.t_end = 5 * Param.dt => nsteps = 5

C7_Witness ==
    /\ pc = "Terminated" /\ nsteps >= 2
    /\ t_label = Param.t_end /\ t_label # t_prev + Param.dt

\* C7 (as claimed): the last executed timestep has t = t_end exactly.
C7_LastLabelIsTEnd ==
    (pc = "Terminated" /\ nsteps >= 1) => t_label = Param.t_end

\* C8: a simulation is constructed only from an Atwood number inside (-1, 1)
\* and positive Re and rho1.
C8_InvalidParametersRejected ==
    pc = "build_mesh" =>
        /\ -AtDen < Param.At /\ Param.At < AtDen
        /\ Param.Re > 0 /\ Param.rho1 > 0

\* C9: set_initial_condition accepts exactly the circles whose centre is
\* farther than the radius from each of the four walls; a rejection leaves
\* phi_old and the normal unassigned and no solve follows.
CircleInside(p) ==
    /\ p.r < p.xc /\ p.r < p.base - p.xc
    /\ p.r < p.yc /\ p.r < p.height - p.yc

C9_InitialConditionValidation ==
    /\ pc = "ic_AssertionError" =>
          /\ ~CircleInside(Param)
          /\ phi_old = Zero /\ n = NoNormal
          /\ nsteps = 0 /\ stages = <<>> /\ phi_curr = Zero
    /\ phi_old.kind \in {"ic", "re"} => CircleInside(Param)

C9_Witness ==
    pc = "ic_AssertionError" /\ Param.xc + Param.r = Param.base /\ Param.yc > Param.r

\* C10: when a file is named on the command line, the simulation is
\* constructed from that file.
C10_ConfiguredFromArgument ==
    (pc # "main" /\ argv # NoArg) => sim_param_name = argv

====
